---- MODULE Spec2Model ----
(***************************************************************************)
(* The orchestration core of GMAS_app.py: CentralGuidingAgent with its     *)
(* agent registry, asyncio task queue and results dict, the dispatch loop  *)
(* process_tasks and the four-stage driver run_pipeline.  The external     *)
(* providers (DDGS search, the two chat-completion endpoints) are the      *)
(* nondeterministic environment: a call raises, answers with a body that   *)
(* lacks the expected shape, or answers with a value.                      *)
(*                                                                         *)
(* One CentralGuidingAgent instance is driven by callers that invoke       *)
(* add_task, process_tasks and run_pipeline.  Each caller is an asyncio    *)
(* coroutine; the event loop runs one coroutine at a time and switches     *)
(* only where a coroutine really suspends (the aiohttp calls).             *)
(***************************************************************************)
EXTENDS Integers, Sequences, FiniteSets, TLC

VARIABLES task_queue, unfinished_tasks, results, in_flight, running,
          frame, hist, ncalls

vars == <<task_queue, unfinished_tasks, results, in_flight, running,
          frame, hist, ncalls>>

(* ------------------------------ bounds --------------------------------- *)
\* Calls of process_tasks and run_pipeline made on the instance.
MaxCalls == 2
\* Tasks the callers put into the queue with add_task before the first call.
MaxQueue == 2
\* The same, where two coroutines use the instance (SpecConc).
MaxPreload == 1

(* ------------------------------ values --------------------------------- *)
\* Python's None, as a provider may answer it for "content".
NULL == "<None>"
\* The topic handed to run_pipeline; the tasks of CallerTasks use "t0".
Topics == {"t1"}
\* The hit list DDGS returns (its content plays no part in the control flow).
SearchHits == {"hits0"}
\* The texts a completion may carry (the empty text and a non-empty one).
Texts == {"", "a"}

Coroutines == {1, 2}
MainCaller == {1}

NoTask == <<>>
NoResult == <<>>
NoArtifact == <<>>
NoError == [type |-> "none", arg |-> "none", line |-> 0]

KeyError(k, l) == [type |-> "KeyError", arg |-> k, line |-> l]
ProviderError(l) == [type |-> "ProviderError", arg |-> "call", line |-> l]

(* ------------------------- agents (lines 13-89) ------------------------ *)
agents == {"research", "writing", "editing", "seo"}

Requires(a) ==
  CASE a = "research" -> <<"query">>
    [] a = "writing"  -> <<"topic", "research_results">>
    [] a = "editing"  -> <<"blog_post">>
    [] a = "seo"      -> <<"edited_post">>

Produces(a) ==
  CASE a = "research" -> "research_results"
    [] a = "writing"  -> "blog_post"
    [] a = "editing"  -> "edited_post"
    [] a = "seo"      -> "seo_metadata"

FieldLine(a) ==
  CASE a = "research" -> 22
    [] a = "writing"  -> 29
    [] a = "editing"  -> 47
    [] a = "seo"      -> 66

CallLine(a) ==
  CASE a = "research" -> 24
    [] a = "writing"  -> 32
    [] a = "editing"  -> 50
    [] a = "seo"      -> 69

ParseLine(a) ==
  CASE a = "research" -> 24
    [] a = "writing"  -> 41
    [] a = "editing"  -> 60
    [] a = "seo"      -> 78

\* The agents whose process_task really awaits (aiohttp); ResearchAgent
\* calls DDGS synchronously and never yields to the event loop.
Suspends(a) == a \in {"writing", "editing", "seo"}

\* str() as applied by the f-strings that build the prompts.
Str(v) == IF v = NULL THEN "None" ELSE v

RECURSIVE FirstMissing(_, _)
\* The first required field, in the order the agent reads them, that the
\* task dict does not hold; "" when all are there.
FirstMissing(fields, task) ==
  IF fields = <<>> THEN ""
  ELSE IF Head(fields) \notin DOMAIN task THEN Head(fields)
  ELSE FirstMissing(Tail(fields), task)

\* What the agent sends to its provider: the query itself for research,
\* the formatted field values for the three prompt-building agents.
Prompt(a, task) ==
  IF a = "research" THEN <<task["query"]>>
  ELSE [i \in 1..Len(Requires(a)) |-> Str(task[Requires(a)[i]])]

\* What a provider call can do.
ProviderReplies(a) ==
  IF a = "research"
  THEN {[kind |-> "raise", value |-> NULL]}
         \cup {[kind |-> "ok", value |-> v] : v \in SearchHits}
  ELSE {[kind |-> "raise", value |-> NULL], [kind |-> "malformed", value |-> NULL]}
         \cup {[kind |-> "ok", value |-> v] : v \in Texts \cup {NULL}}

AgentResult_extra(a, v) ==
  IF a = "seo" THEN [seo_metadata |-> v, edited_post |-> v]
  ELSE [k \in {Produces(a)} |-> v]

\* The dict an agent returns for a reply value.
AgentResult(a, v) == [k \in {Produces(a)} |-> v]

Update_keep(store, partial) ==
  [k \in DOMAIN store \cup DOMAIN partial |->
     IF k \in DOMAIN store THEN store[k] ELSE partial[k]]

(* ---------------------- dict.update (line 101) ------------------------- *)
Update(store, partial) ==
  [k \in DOMAIN store \cup DOMAIN partial |->
     IF k \in DOMAIN partial THEN partial[k] ELSE store[k]]

(* --------------------- run_pipeline's four stages ---------------------- *)
StageAgent(n) ==
  CASE n = 1 -> "research"
    [] n = 2 -> "writing"
    [] n = 3 -> "editing"
    [] n = 4 -> "seo"

\* The results keys read while the statement of stage n is evaluated;
\* stage 5 is the return statement.
StageReads(n) ==
  CASE n = 1 -> <<>>
    [] n = 2 -> <<"research_results">>
    [] n = 3 -> <<"blog_post">>
    [] n = 4 -> <<"edited_post">>
    [] n = 5 -> <<"edited_post", "seo_metadata">>

StageLine(n, k) ==
  CASE n = 1 -> 105
    [] n = 2 -> 108
    [] n = 3 -> 111
    [] n = 4 -> 114
    [] n = 5 -> IF k = "edited_post" THEN 118 ELSE 119

StageTask_extra(n, topic, store) ==
  CASE n = 1 -> [agent |-> "research", query |-> topic]
    [] n = 2 -> [agent |-> "writing", topic |-> topic,
                 research_results |-> store["research_results"]]
    [] n = 3 -> [agent |-> "editing", blog_post |-> store["blog_post"]]
    [] n = 4 -> [agent |-> "seo", edited_post |-> store["edited_post"],
                 blog_post |-> store["blog_post"]]

StageTask_draft(n, topic, store) ==
  CASE n = 1 -> [agent |-> "research", query |-> topic]
    [] n = 2 -> [agent |-> "writing", topic |-> topic,
                 research_results |-> store["research_results"]]
    [] n = 3 -> [agent |-> "editing", blog_post |-> store["blog_post"]]
    [] n = 4 -> [agent |-> "seo", edited_post |-> store["blog_post"]]

StageTask(n, topic, store) ==
  CASE n = 1 -> [agent |-> "research", query |-> topic]
    [] n = 2 -> [agent |-> "writing", topic |-> topic,
                 research_results |-> store["research_results"]]
    [] n = 3 -> [agent |-> "editing", blog_post |-> store["blog_post"]]
    [] n = 4 -> [agent |-> "seo", edited_post |-> store["edited_post"]]

Artifact_draft(store) ==
  [blog_post |-> store["blog_post"], seo_metadata |-> store["seo_metadata"]]

Artifact(store) ==
  [blog_post |-> store["edited_post"], seo_metadata |-> store["seo_metadata"]]

(* ------------------- tasks a caller hands to add_task ------------------ *)
CallerTasks ==
  { [agent |-> "nonexistent", query |-> "t0"],
    [query |-> "t0"],
    [agent |-> "research", query |-> "t0"],
    [agent |-> "writing", topic |-> "t0"],
    [agent |-> "editing", blog_post |-> NULL],
    [agent |-> "seo", edited_post |-> "b"] }

(* ------------------------------ frames --------------------------------- *)
IdleFrame ==
  [call |-> "none", status |-> "idle", stage |-> 0, pc |-> "off",
   topic |-> "", task |-> NoTask, agent |-> "", result |-> NoResult,
   err |-> NoError, artifact |-> NoArtifact]

\* What a top-level call has done so far (observation only, the code keeps
\* none of it): the tasks the driver enqueued, the tasks dequeued, the tasks
\* handed to agents, the provider calls, the agents' return values, the
\* partial results merged, the task_done calls, the queue and the store as
\* the call found them, the keys of the store whose value an earlier
\* run_pipeline of the caller wrote, and the store as it was when the
\* current task was dequeued.
EmptyHist ==
  [enq |-> <<>>, deq |-> <<>>, inv |-> <<>>, prov |-> <<>>, rets |-> <<>>,
   merged |-> <<>>, done |-> 0, q0 |-> <<>>, r0 |-> <<>>, prior |-> {},
   rdeq |-> <<>>]

\* The keys the call of c has written so far.
MergedKeys(c) ==
  UNION {DOMAIN hist[c].merged[i] : i \in 1..Len(hist[c].merged)}

\* The keys whose stored value comes from a run_pipeline that c made before
\* the call it starts now.
PriorKeys(c) ==
  IF frame[c].call = "run_pipeline"
  THEN hist[c].prior \cup MergedKeys(c)
  ELSE hist[c].prior \ MergedKeys(c)

StartHist == [EmptyHist EXCEPT !.q0 = task_queue, !.r0 = results]

Raised_swallowed(f, e) ==
  [f EXCEPT !.pc = "test", !.task = NoTask, !.agent = "", !.result = NoResult]

Raised_partial(f, e) ==
  [f EXCEPT !.status = "returned", !.artifact = [blog_post |-> NULL, seo_metadata |-> NULL],
            !.pc = "off", !.stage = 0,
            !.task = NoTask, !.agent = "", !.result = NoResult]

\* The frame after an exception left the top-level call.
Raised(f, e) ==
  [f EXCEPT !.status = "raised", !.err = e, !.pc = "off", !.stage = 0,
            !.task = NoTask, !.agent = "", !.result = NoResult]

Init ==
  /\ task_queue = <<>>
  /\ unfinished_tasks = 0
  /\ results = <<>>
  /\ in_flight = <<>>
  /\ running = 0
  /\ frame = [c \in Coroutines |-> IdleFrame]
  /\ hist = [c \in Coroutines |-> EmptyHist]
  /\ ncalls = 0

Idle(c) == frame[c].status # "active"
At(c, p) == frame[c].status = "active" /\ frame[c].pc = p /\ running = c

RECURSIVE Remove(_, _)
\* seq without the first occurrence of x.
Remove(seq, x) ==
  IF seq = <<>> THEN <<>>
  ELSE IF Head(seq) = x THEN Tail(seq)
  ELSE <<Head(seq)>> \o Remove(Tail(seq), x)

InvokePc_nowait == "test"

\* Where process_tasks stands after it started an agent call: line 100
\* awaits the call, so the loop goes no further until the agent is back.
InvokePc == "await"

(* ------------------------ add_task (lines 93-94) ----------------------- *)
\* asyncio.Queue.put on the unbounded queue: append, count the item as
\* unfinished; it never suspends.  Callers enqueue their tasks before the
\* first call of process_tasks or run_pipeline.
add_task(c, t) ==
  /\ running = 0 /\ Idle(c)
  /\ ncalls = 0 /\ Len(task_queue) < MaxQueue
  /\ task_queue' = Append(task_queue, t)
  /\ unfinished_tasks' = unfinished_tasks + 1
  /\ UNCHANGED <<results, in_flight, running, frame, hist, ncalls>>

(* --------------------- process_tasks (lines 96-102) -------------------- *)
\* A caller calls process_tasks directly.
process_tasks(c) ==
  /\ running = 0 /\ Idle(c) /\ ncalls < MaxCalls
  /\ frame' = [frame EXCEPT ![c] =
                 [IdleFrame EXCEPT !.call = "process_tasks",
                                   !.status = "active", !.pc = "test"]]
  /\ hist' = [hist EXCEPT ![c] = [StartHist EXCEPT !.prior = PriorKeys(c)]]
  /\ running' = c
  /\ ncalls' = ncalls + 1
  /\ UNCHANGED <<task_queue, unfinished_tasks, results, in_flight>>

loop_test_blocking(c) ==
  /\ At(c, "test")
  /\ frame' = [frame EXCEPT ![c].pc = "get"]
  /\ UNCHANGED <<task_queue, unfinished_tasks, results, in_flight, running, hist, ncalls>>

\* line 97: while not self.task_queue.empty().  On an empty queue
\* process_tasks returns: to its caller, or into run_pipeline, which goes on
\* to the statement of the next stage.
loop_test(c) ==
  /\ At(c, "test")
  /\ IF task_queue # <<>>
     THEN /\ frame' = [frame EXCEPT ![c].pc = "get"]
          /\ UNCHANGED running
     ELSE IF frame[c].call = "process_tasks"
     THEN /\ frame' = [frame EXCEPT ![c].status = "returned", ![c].pc = "off"]
          /\ running' = 0
     ELSE /\ frame' = [frame EXCEPT ![c].stage = @ + 1,
                                    ![c].pc = IF frame[c].stage = 4
                                              THEN "return" ELSE "add"]
          /\ UNCHANGED running
  /\ UNCHANGED <<task_queue, unfinished_tasks, results, in_flight, hist, ncalls>>

queue_get_lifo(c) ==
  /\ At(c, "get")
  /\ task_queue # <<>>
  /\ task_queue' = SubSeq(task_queue, 1, Len(task_queue) - 1)
  /\ frame' = [frame EXCEPT ![c].task = task_queue[Len(task_queue)],
                            ![c].pc = "resolve"]
  /\ hist' = [hist EXCEPT ![c].deq = Append(@, task_queue[Len(task_queue)])]
  /\ UNCHANGED <<unfinished_tasks, results, in_flight, running, ncalls>>

\* line 98: task = await self.task_queue.get().  On an empty queue get()
\* would suspend the coroutine here until an item arrives.
queue_get(c) ==
  /\ At(c, "get")
  /\ task_queue # <<>>
  /\ task_queue' = Tail(task_queue)
  /\ frame' = [frame EXCEPT ![c].task = Head(task_queue), ![c].pc = "resolve"]
  /\ hist' = [hist EXCEPT ![c].deq = Append(@, Head(task_queue)),
                          ![c].rdeq = results]
  /\ UNCHANGED <<unfinished_tasks, results, in_flight, running, ncalls>>

resolve_agent_default(c) ==
  /\ At(c, "resolve")
  /\ LET task == frame[c].task IN
     IF "agent" \notin DOMAIN task
     THEN /\ frame' = [frame EXCEPT ![c] = Raised(@, KeyError("agent", 99))]
          /\ running' = 0
     ELSE /\ frame' = [frame EXCEPT ![c].agent = IF task["agent"] \in agents
                                                 THEN task["agent"] ELSE "research",
                                    ![c].pc = "call"]
          /\ UNCHANGED running
  /\ UNCHANGED <<task_queue, unfinished_tasks, results, in_flight, hist, ncalls>>

\* line 99: agent = self.agents[task['agent']]
resolve_agent(c) ==
  /\ At(c, "resolve")
  /\ LET task == frame[c].task IN
     IF "agent" \notin DOMAIN task
     THEN /\ frame' = [frame EXCEPT ![c] = Raised(@, KeyError("agent", 99))]
          /\ running' = 0
     ELSE IF task["agent"] \notin agents
     THEN /\ frame' = [frame EXCEPT ![c] = Raised(@, KeyError(task["agent"], 99))]
          /\ running' = 0
     ELSE /\ frame' = [frame EXCEPT ![c].agent = task["agent"], ![c].pc = "call"]
          /\ UNCHANGED running
  /\ UNCHANGED <<task_queue, unfinished_tasks, results, in_flight, hist, ncalls>>

\* line 100, first half: agent.process_task(task) runs up to its provider
\* call.  It reads its fields from the task (KeyError on an absent one),
\* builds the prompt and sends the request.
process_task(c) ==
  /\ At(c, "call")
  /\ LET task == frame[c].task
         a == frame[c].agent
         missing == FirstMissing(Requires(a), task)
     IN IF missing # ""
        THEN /\ frame' = [frame EXCEPT ![c] = Raised(@, KeyError(missing, FieldLine(a)))]
             /\ hist' = [hist EXCEPT ![c].inv = Append(@, task)]
             /\ running' = 0
             /\ UNCHANGED in_flight
        ELSE /\ frame' = [frame EXCEPT ![c].pc = InvokePc]
             /\ hist' = [hist EXCEPT ![c].inv = Append(@, task),
                                     ![c].prov = Append(@, [agent |-> a, task |-> task,
                                                            prompt |-> Prompt(a, task)])]
             /\ in_flight' = Append(in_flight, task)
             /\ running' = IF Suspends(a) THEN 0 ELSE c
  /\ UNCHANGED <<task_queue, unfinished_tasks, results, ncalls>>

provider_reply_done(c, reply) ==
  /\ frame[c].status = "active" /\ frame[c].pc = "await"
  /\ running = IF Suspends(frame[c].agent) THEN 0 ELSE c
  /\ reply \in ProviderReplies(frame[c].agent)
  /\ LET a == frame[c].agent IN
     /\ in_flight' = Remove(in_flight, frame[c].task)
     /\ IF reply.kind = "ok"
        THEN /\ frame' = [frame EXCEPT ![c].result = AgentResult(a, reply.value),
                                       ![c].pc = "merge"]
             /\ hist' = [hist EXCEPT ![c].rets = Append(@, [agent |-> a,
                                                            value |-> reply.value])]
             /\ running' = c
             /\ UNCHANGED unfinished_tasks
        ELSE /\ frame' = [frame EXCEPT ![c] = Raised(@, ProviderError(CallLine(a)))]
             /\ hist' = [hist EXCEPT ![c].done = @ + 1]
             /\ unfinished_tasks' = unfinished_tasks - 1
             /\ running' = 0
  /\ UNCHANGED <<task_queue, results, ncalls>>

provider_reply_retry(c, reply) ==
  /\ frame[c].status = "active" /\ frame[c].pc = "await"
  /\ running = IF Suspends(frame[c].agent) THEN 0 ELSE c
  /\ reply \in ProviderReplies(frame[c].agent)
  /\ LET a == frame[c].agent IN
     /\ in_flight' = Remove(in_flight, frame[c].task)
     /\ running' = c
     /\ IF reply.kind = "ok"
        THEN /\ frame' = [frame EXCEPT ![c].result = AgentResult(a, reply.value),
                                       ![c].pc = "merge"]
             /\ hist' = [hist EXCEPT ![c].rets = Append(@, [agent |-> a,
                                                            value |-> reply.value])]
        ELSE /\ frame' = [frame EXCEPT ![c].pc = "call"]
             /\ UNCHANGED hist
  /\ UNCHANGED <<task_queue, unfinished_tasks, results, ncalls>>

\* line 100, second half: the provider answers (or fails) and the agent
\* returns its one-key dict (or raises).
provider_reply(c, reply) ==
  /\ frame[c].status = "active" /\ frame[c].pc = "await"
  /\ running = IF Suspends(frame[c].agent) THEN 0 ELSE c
  /\ reply \in ProviderReplies(frame[c].agent)
  /\ LET a == frame[c].agent IN
     /\ in_flight' = Remove(in_flight, frame[c].task)
     /\ CASE reply.kind = "raise" ->
               /\ frame' = [frame EXCEPT ![c] = Raised(@, ProviderError(CallLine(a)))]
               /\ running' = 0
               /\ UNCHANGED hist
          [] reply.kind = "malformed" ->
               /\ frame' = [frame EXCEPT ![c] = Raised(@, KeyError("choices", ParseLine(a)))]
               /\ running' = 0
               /\ UNCHANGED hist
          [] reply.kind = "ok" ->
               /\ frame' = [frame EXCEPT ![c].result = AgentResult(a, reply.value),
                                         ![c].pc = "merge"]
               /\ hist' = [hist EXCEPT ![c].rets = Append(@, [agent |-> a,
                                                              value |-> reply.value])]
               /\ running' = c
  /\ UNCHANGED <<task_queue, unfinished_tasks, results, ncalls>>

results_update_done(c) ==
  /\ At(c, "merge")
  /\ results' = Update(results, frame[c].result)
  /\ unfinished_tasks' = unfinished_tasks - 1
  /\ frame' = [frame EXCEPT ![c].pc = "task_done"]
  /\ hist' = [hist EXCEPT ![c].merged = Append(@, frame[c].result),
                          ![c].done = @ + 1]
  /\ UNCHANGED <<task_queue, in_flight, running, ncalls>>

\* line 101: self.results.update(result)
results_update(c) ==
  /\ At(c, "merge")
  /\ results' = Update(results, frame[c].result)
  /\ frame' = [frame EXCEPT ![c].pc = "task_done"]
  /\ hist' = [hist EXCEPT ![c].merged = Append(@, frame[c].result)]
  /\ UNCHANGED <<task_queue, unfinished_tasks, in_flight, running, ncalls>>

\* line 102: self.task_queue.task_done()
task_done(c) ==
  /\ At(c, "task_done")
  /\ unfinished_tasks' = unfinished_tasks - 1
  /\ frame' = [frame EXCEPT ![c].pc = "test", ![c].task = NoTask,
                            ![c].agent = "", ![c].result = NoResult]
  /\ hist' = [hist EXCEPT ![c].done = @ + 1]
  /\ UNCHANGED <<task_queue, results, in_flight, running, ncalls>>

(* --------------------- run_pipeline (lines 104-120) -------------------- *)
run_pipeline(c, topic) ==
  /\ running = 0 /\ Idle(c) /\ ncalls < MaxCalls
  /\ topic \in Topics
  /\ frame' = [frame EXCEPT ![c] =
                 [IdleFrame EXCEPT !.call = "run_pipeline", !.status = "active",
                                   !.stage = 1, !.pc = "add", !.topic = topic]]
  /\ hist' = [hist EXCEPT ![c] = [StartHist EXCEPT !.prior = PriorKeys(c)]]
  /\ running' = c
  /\ ncalls' = ncalls + 1
  /\ UNCHANGED <<task_queue, unfinished_tasks, results, in_flight>>

stage_add_task_get(c) ==
  /\ At(c, "add")
  /\ LET n == frame[c].stage
         store == [k \in {"research_results", "blog_post", "edited_post"} |->
                     IF k \in DOMAIN results THEN results[k] ELSE NULL]
     IN /\ task_queue' = Append(task_queue, StageTask(n, frame[c].topic, store))
        /\ unfinished_tasks' = unfinished_tasks + 1
        /\ frame' = [frame EXCEPT ![c].pc = "test"]
        /\ hist' = [hist EXCEPT ![c].enq =
                       Append(@, StageTask(n, frame[c].topic, store))]
        /\ UNCHANGED running
  /\ UNCHANGED <<results, in_flight, ncalls>>

stage_add_task_nodrain(c) ==
  /\ At(c, "add")
  /\ LET n == frame[c].stage
         missing == FirstMissing(StageReads(n), results)
     IN IF missing # ""
        THEN /\ frame' = [frame EXCEPT ![c] = Raised(@, KeyError(missing, StageLine(n, missing)))]
             /\ running' = 0
             /\ UNCHANGED <<task_queue, unfinished_tasks, hist>>
        ELSE /\ task_queue' = Append(task_queue, StageTask(n, frame[c].topic, results))
             /\ unfinished_tasks' = unfinished_tasks + 1
             /\ frame' = [frame EXCEPT ![c].pc = IF n = 2 THEN "add" ELSE "test",
                                       ![c].stage = IF n = 2 THEN 3 ELSE n]
             /\ hist' = [hist EXCEPT ![c].enq =
                            Append(@, StageTask(n, frame[c].topic, results))]
             /\ UNCHANGED running
  /\ UNCHANGED <<results, in_flight, ncalls>>

\* lines 105, 108, 111, 114: the task dict is built first, reading the
\* store (KeyError on an absent key), then add_task enqueues it, and the
\* next statement calls process_tasks.
stage_add_task(c) ==
  /\ At(c, "add")
  /\ LET n == frame[c].stage
         missing == FirstMissing(StageReads(n), results)
     IN IF missing # ""
        THEN /\ frame' = [frame EXCEPT ![c] = Raised(@, KeyError(missing, StageLine(n, missing)))]
             /\ running' = 0
             /\ UNCHANGED <<task_queue, unfinished_tasks, hist>>
        ELSE /\ task_queue' = Append(task_queue, StageTask(n, frame[c].topic, results))
             /\ unfinished_tasks' = unfinished_tasks + 1
             /\ frame' = [frame EXCEPT ![c].pc = "test"]
             /\ hist' = [hist EXCEPT ![c].enq =
                            Append(@, StageTask(n, frame[c].topic, results))]
             /\ UNCHANGED running
  /\ UNCHANGED <<results, in_flight, ncalls>>

\* lines 117-120: the artifact is built from the store and returned.
pipeline_return(c) ==
  /\ At(c, "return")
  /\ LET missing == FirstMissing(StageReads(5), results)
     IN IF missing # ""
        THEN frame' = [frame EXCEPT ![c] = Raised(@, KeyError(missing, StageLine(5, missing)))]
        ELSE frame' = [frame EXCEPT ![c].status = "returned", ![c].pc = "off",
                                    ![c].stage = 0, ![c].artifact = Artifact(results)]
  /\ running' = 0
  /\ UNCHANGED <<task_queue, unfinished_tasks, results, in_flight, hist, ncalls>>

(* --------------------------- specifications ---------------------------- *)
\* The statements inside process_tasks and run_pipeline.
Body(c) ==
  \/ loop_test(c)
  \/ queue_get(c)
  \/ resolve_agent(c)
  \/ process_task(c)
  \/ \E reply \in ProviderReplies(frame[c].agent) : provider_reply(c, reply)
  \/ results_update(c)
  \/ task_done(c)
  \/ stage_add_task(c)
  \/ pipeline_return(c)

Step(c) ==
  \/ \E t \in CallerTasks : add_task(c, t)
  \/ process_tasks(c)
  \/ \E topic \in Topics : run_pipeline(c, topic)
  \/ Body(c)

\* One caller at a time uses the instance.
Next == \E c \in MainCaller : Step(c)
Spec == Init /\ [][Next]_vars

\* One caller enqueues tasks and then runs the pipeline, more than once.
\* The event loop keeps running a coroutine that can go on, and every agent
\* call comes back (with a value or an exception): a started run_pipeline
\* is not left standing for ever.
NextLive ==
  \E c \in MainCaller :
    \/ \E t \in CallerTasks : Len(task_queue) < MaxPreload /\ add_task(c, t)
    \/ \E topic \in Topics : run_pipeline(c, topic)
    \/ Body(c)
SpecLive == Init /\ [][NextLive]_vars /\ WF_vars(\E c \in MainCaller : Body(c))

\* A second coroutine drains the queue (one process_tasks call) while the
\* first one enqueues tasks and runs the pipeline once.
NeverCalled(c) == frame[c].status = "idle"

NextConc ==
  \/ \E c \in MainCaller :
        \/ \E t \in CallerTasks : Len(task_queue) < MaxPreload /\ add_task(c, t)
        \/ \E topic \in Topics : NeverCalled(c) /\ run_pipeline(c, topic)
        \/ Body(c)
  \/ \E c \in Coroutines \ MainCaller :
        \/ NeverCalled(c) /\ process_tasks(c)
        \/ Body(c)
SpecConc == Init /\ [][NextConc]_vars


(* ------------------------- vocabulary of the claims --------------------- *)
Active(c) == frame[c].status = "active"
Run(c) == frame[c].call = "run_pipeline"
Returned(c) == frame[c].status = "returned"
Failed(c) == frame[c].status = "raised"

\* The error kinds of the design, as the places where the code raises.
UnknownAgentError(e) == e.type = "KeyError" /\ e.line = 99
MissingInputError(e) == e.type = "KeyError" /\ e.line \in {22, 29, 47, 66}
UpstreamError(e) == e.line \in {24, 32, 50, 69, 41, 60, 78}
PipelineStateError(e) == e.type = "KeyError" /\ e.line \in {108, 111, 114, 118, 119}

\* The position, among the tasks the call of c handles, of the task of
\* stage n: the tasks the call found in the queue come first.
Pos(c, n) == Len(hist[c].q0) + n

\* All four stage tasks were enqueued and every agent call so far returned.
FourCallsSucceeded(c) ==
  /\ Len(hist[c].enq) = 4
  /\ Len(hist[c].rets) = Pos(c, 4)

\* A step in which the agent call that c awaits ends without a return value.
AgentCallRaises(c) ==
  /\ Active(c) /\ frame[c].pc = "await"
  /\ frame'[c] # frame[c]
  /\ hist'[c].rets = hist[c].rets

\* Nothing more happens in a call that failed.
FailedCallIsOver(c) ==
  Failed(c) /\ frame'[c].status # "active" => UNCHANGED <<frame[c], hist[c]>>

\* C1: when all four agent calls of a run succeed, run_pipeline returns an
\* artifact with exactly the keys blog_post and seo_metadata; blog_post is
\* what the Editing agent returned, seo_metadata what the SEO agent
\* returned, so both are non-empty when the providers' texts are.
C1_Artifact ==
  \A c \in Coroutines :
    Run(c) /\ ~Active(c) /\ FourCallsSucceeded(c) =>
      /\ Returned(c)
      /\ DOMAIN frame[c].artifact = {"blog_post", "seo_metadata"}
      /\ hist[c].rets[Pos(c, 3)].agent = "editing"
      /\ hist[c].rets[Pos(c, 4)].agent = "seo"
      /\ frame[c].artifact["blog_post"] = hist[c].rets[Pos(c, 3)].value
      /\ frame[c].artifact["seo_metadata"] = hist[c].rets[Pos(c, 4)].value

\* A run returned an edited text that differs from the draft.
C1_Witness ==
  \E c \in Coroutines :
    /\ Run(c) /\ Returned(c) /\ FourCallsSucceeded(c)
    /\ frame[c].artifact["blog_post"] = "a"
    /\ frame[c].artifact["seo_metadata"] = "a"
    /\ hist[c].rets[Pos(c, 2)].value = ""

\* C2: fail-fast.  When the agent call of a stage raises, run_pipeline
\* fails with that error, an UpstreamError; no artifact is produced, the
\* store and the queue stay as they are, and from then on the run invokes
\* no agent and enqueues no task.
C2_FailFast ==
  [][\A c \in Coroutines :
       /\ Run(c) /\ AgentCallRaises(c) =>
            /\ frame'[c].status = "raised"
            /\ UpstreamError(frame'[c].err)
            /\ frame'[c].err.line \in {CallLine(frame[c].agent), ParseLine(frame[c].agent)}
            /\ frame'[c].artifact = NoArtifact
            /\ UNCHANGED <<task_queue, results>>
            /\ hist'[c].inv = hist[c].inv /\ hist'[c].enq = hist[c].enq
       /\ Run(c) => FailedCallIsOver(c)]_vars

\* A run failed in the Editing call: three tasks were enqueued, the SEO
\* agent was never invoked.
C2_Witness ==
  \E c \in Coroutines :
    /\ Run(c) /\ Failed(c) /\ frame[c].err.line \in {50, 60}
    /\ Len(hist[c].enq) = 3
    /\ \A i \in 1..Len(hist[c].inv) : hist[c].inv[i]["agent"] # "seo"

\* C3: no partial output.  A finished run has an artifact exactly when all
\* four stage tasks were enqueued and merged; any other finished run failed
\* with an error and has none, and a run under way has none.
C3_NoPartialOutput ==
  \A c \in Coroutines :
    Run(c) =>
      /\ Active(c) => frame[c].artifact = NoArtifact
      /\ ~Active(c) =>
           /\ frame[c].artifact # NoArtifact <=>
                (Len(hist[c].enq) = 4 /\ Len(hist[c].merged) = Pos(c, 4))
           /\ Returned(c) <=> frame[c].artifact # NoArtifact
           /\ Failed(c) <=> frame[c].err # NoError
           /\ Returned(c) \/ Failed(c)

\* A run failed although three stages had merged their results.
C3_Witness ==
  \E c \in Coroutines :
    /\ Run(c) /\ Failed(c) /\ Len(hist[c].merged) = Pos(c, 3)
    /\ DOMAIN results = {"research_results", "blog_post", "edited_post"}
    /\ frame[c].artifact = NoArtifact

\* C4: stage ordering.  The driver enqueues the task of stage n+1 only
\* when the task of stage n has been dequeued, its agent call has returned,
\* its result is merged into the store and the drain has returned (queue
\* empty, nothing in flight); the key the new task reads holds the value
\* that stage n of this run wrote.
C4_StageOrdering ==
  [][\A c \in Coroutines :
       Run(c) /\ Len(hist[c].enq) >= 1
              /\ Len(hist'[c].enq) = Len(hist[c].enq) + 1 =>
         LET n == Len(hist[c].enq)
             p == Pos(c, n)
         IN /\ Len(hist[c].deq) = p /\ hist[c].deq[p] = hist[c].enq[n]
            /\ Len(hist[c].rets) = p /\ hist[c].rets[p].agent = StageAgent(n)
            /\ Len(hist[c].merged) = p
            /\ hist[c].merged[p] = AgentResult(StageAgent(n), hist[c].rets[p].value)
            /\ task_queue = <<>> /\ in_flight = <<>> /\ frame[c].task = NoTask
            /\ \A i \in 1..Len(StageReads(n + 1)) :
                 /\ StageReads(n + 1)[i] = Produces(StageAgent(n))
                 /\ results[StageReads(n + 1)[i]] = hist[c].rets[p].value]_vars

\* The task of the Editing stage has just been enqueued.
C4_Witness ==
  \E c \in Coroutines :
    /\ Run(c) /\ Active(c) /\ frame[c].pc = "test"
    /\ Len(hist[c].enq) = 3 /\ Len(hist[c].deq) = Pos(c, 2)
    /\ task_queue = <<hist[c].enq[3]>>

\* C5: nothing is lost or changed in transit.  The field that the task of
\* stage n carries is the value the agent of stage n-1 returned, and the
\* agent of stage n is handed the task as it was enqueued.
C5_NoLossInTransit ==
  \A c \in Coroutines :
    Run(c) =>
      \A n \in 1..Len(hist[c].enq) :
        LET t == hist[c].enq[n] IN
        /\ n = 1 => t = [agent |-> "research", query |-> frame[c].topic]
        /\ n > 1 =>
             /\ hist[c].rets[Pos(c, n - 1)].agent = StageAgent(n - 1)
             /\ t[Produces(StageAgent(n - 1))] = hist[c].rets[Pos(c, n - 1)].value
        /\ Len(hist[c].inv) >= Pos(c, n) => hist[c].inv[Pos(c, n)] = t

\* The SEO agent was handed the edited text, which differs from the draft.
C5_Witness ==
  \E c \in Coroutines :
    /\ Run(c) /\ Len(hist[c].inv) = Pos(c, 4)
    /\ hist[c].inv[Pos(c, 4)] = [agent |-> "seo", edited_post |-> "a"]
    /\ hist[c].rets[Pos(c, 2)].value = ""

ResultKeys == {"research_results", "blog_post", "edited_post", "seo_metadata"}

\* How often the call of c has written key k into the store.
Writes(c, k) ==
  Cardinality({i \in 1..Len(hist[c].merged) : k \in DOMAIN hist[c].merged[i]})

\* C6 as stated: after any successful run the store holds exactly the four
\* keys and the run wrote each of them exactly once.
C6_WriteOnce_AnyRun ==
  \A c \in Coroutines :
    Run(c) /\ Returned(c) =>
      /\ DOMAIN results = ResultKeys
      /\ \A k \in ResultKeys : Writes(c, k) = 1

\* C6 (amended): after a successful run that found the task queue empty,
\* the store holds exactly the four keys, and the run wrote each of them
\* exactly once, stage n writing the key of its agent and no other.
C6_WriteOnce ==
  \A c \in Coroutines :
    Run(c) /\ Returned(c) /\ hist[c].q0 = <<>> =>
      /\ DOMAIN results = ResultKeys
      /\ \A k \in ResultKeys : Writes(c, k) = 1
      /\ \A n \in 1..4 : DOMAIN hist[c].merged[n] = {Produces(StageAgent(n))}

\* A second successful run on the instance, over a store that was full.
C6_Witness ==
  \E c \in Coroutines :
    /\ Run(c) /\ Returned(c) /\ hist[c].q0 = <<>>
    /\ DOMAIN hist[c].r0 = ResultKeys
    /\ Len(hist[c].merged) = 4

\* C7: at most one agent call is in flight at any time, also while further
\* tasks wait in the queue.
C7_OneInFlight == Len(in_flight) <= 1

\* An agent call is in flight while another task waits in the queue.
C7_Witness == Len(in_flight) = 1 /\ task_queue # <<>>

\* A step that resolves the agent of a task naming an unregistered agent.
UnknownDispatch(c) ==
  /\ Active(c) /\ frame[c].pc = "resolve"
  /\ "agent" \in DOMAIN frame[c].task
  /\ frame[c].task["agent"] \notin agents
  /\ frame'[c] # frame[c]

\* C8: dispatching a task whose agent is not registered fails with
\* UnknownAgentError; no agent and no provider is called for it, the store
\* and the tasks queued behind it stay untouched, and processing halts.
C8_UnknownAgent ==
  [][\A c \in Coroutines :
       /\ UnknownDispatch(c) =>
            /\ frame'[c].status = "raised"
            /\ UnknownAgentError(frame'[c].err)
            /\ frame'[c].err.arg = frame[c].task["agent"]
            /\ hist'[c].inv = hist[c].inv /\ hist'[c].prov = hist[c].prov
            /\ UNCHANGED <<in_flight, results, task_queue>>
       /\ UnknownAgentError(frame[c].err) => FailedCallIsOver(c)]_vars

\* Dispatch failed on an unknown agent with a task still queued behind it.
C8_Witness ==
  \E c \in Coroutines :
    /\ Failed(c) /\ UnknownAgentError(frame[c].err)
    /\ frame[c].err.arg = "nonexistent"
    /\ task_queue # <<>>
    /\ hist[c].prov = <<>>

\* A task lacks a field its agent requires, or holds None in it.
BadInput(task) ==
  \E j \in 1..Len(Requires(task["agent"])) :
    \/ Requires(task["agent"])[j] \notin DOMAIN task
    \/ task[Requires(task["agent"])[j]] = NULL

\* C9 as stated: a task handed to its agent with a required field absent or
\* null makes the dispatch fail with MissingInputError and never reaches a
\* provider.
C9_MissingInput ==
  \A c \in Coroutines :
    /\ \A i \in 1..Len(hist[c].inv) :
         BadInput(hist[c].inv[i]) =>
           i = Len(hist[c].inv) /\ Failed(c) /\ MissingInputError(frame[c].err)
    /\ \A i \in 1..Len(hist[c].prov) : ~BadInput(hist[c].prov[i].task)

\* A step of the driver statement that finds a key it reads absent.
GuardTrips(c) ==
  /\ Active(c) /\ frame[c].pc \in {"add", "return"}
  /\ FirstMissing(StageReads(frame[c].stage), results) # ""
  /\ frame'[c] # frame[c]

\* C10: when the driver is about to build the task of a stage (or the
\* artifact) and a key it reads is absent from the store, the run fails with
\* PipelineStateError; the task is not enqueued, nothing is dispatched, and
\* the run does nothing further.
C10_TransitionGuard ==
  [][\A c \in Coroutines :
       /\ GuardTrips(c) =>
            /\ frame'[c].status = "raised"
            /\ PipelineStateError(frame'[c].err)
            /\ frame'[c].err.arg = FirstMissing(StageReads(frame[c].stage), results)
            /\ frame'[c].artifact = NoArtifact
            /\ hist'[c] = hist[c]
            /\ UNCHANGED <<task_queue, unfinished_tasks, results, in_flight>>
       /\ PipelineStateError(frame[c].err) => FailedCallIsOver(c)]_vars

\* The Writing stage found research_results absent: the other coroutine had
\* taken the research task and failed on it.
C10_Witness ==
  \E c \in Coroutines :
    /\ Run(c) /\ Failed(c) /\ PipelineStateError(frame[c].err)
    /\ frame[c].err.arg = "research_results"
    /\ Len(hist[c].enq) = 1

\* C11: draining is exhaustive and FIFO.  The tasks a call has dequeued,
\* followed by those still queued, are the tasks the call found in the
\* queue followed by those its driver enqueued; agents are handed the
\* dequeued tasks in that order; and when process_tasks returns normally
\* every task it found was dispatched and the queue is empty.
C11_FifoDrain ==
  \A c \in Coroutines :
    /\ frame[c].status # "idle" =>
         hist[c].deq \o task_queue = hist[c].q0 \o hist[c].enq
    /\ \A i \in 1..Len(hist[c].inv) : hist[c].inv[i] = hist[c].deq[i]
    /\ frame[c].call = "process_tasks" /\ Returned(c) =>
         /\ hist[c].inv = hist[c].q0
         /\ hist[c].deq = hist[c].q0

\* process_tasks returned after it dispatched two different tasks that had
\* been enqueued before it was called.
C11_Witness ==
  \E c \in Coroutines :
    /\ frame[c].call = "process_tasks" /\ Returned(c)
    /\ Len(hist[c].q0) = 2 /\ hist[c].q0[1] # hist[c].q0[2]
    /\ hist[c].done = 2 /\ task_queue = <<>>

\* C12 as stated: the store lives for one pipeline run.  When a run_pipeline
\* execution starts, and all through it, the store holds no value that an
\* earlier run on the instance wrote.
C12_StoreLifetime ==
  \A c \in Coroutines :
    Run(c) => hist[c].prior \cap DOMAIN hist[c].r0 = {}

\* The agent names of a sequence of tasks.
AgentsOf(tasks) == [i \in 1..Len(tasks) |-> tasks[i]["agent"]]

StageOrder == <<"research", "writing", "editing", "seo">>

IsPrefix(a, b) == Len(a) <= Len(b) /\ a = SubSeq(b, 1, Len(a))

\* C13 as stated: in every run the agents invoked so far are a prefix of
\* research, writing, editing, seo, each at most once; a successful run
\* created four tasks, dequeued each once and invoked all four agents.
C13_OncePerStage_AnyRun ==
  \A c \in Coroutines :
    Run(c) =>
      /\ IsPrefix(AgentsOf(hist[c].inv), StageOrder)
      /\ Returned(c) =>
           /\ AgentsOf(hist[c].enq) = StageOrder
           /\ hist[c].deq = hist[c].enq
           /\ AgentsOf(hist[c].inv) = StageOrder

\* C13 (amended): the same, for the runs that found the task queue empty.
C13_OncePerStage ==
  \A c \in Coroutines :
    Run(c) /\ hist[c].q0 = <<>> =>
      /\ IsPrefix(AgentsOf(hist[c].enq), StageOrder)
      /\ IsPrefix(hist[c].deq, hist[c].enq)
      /\ IsPrefix(hist[c].inv, hist[c].deq)
      /\ IsPrefix(AgentsOf(hist[c].inv), StageOrder)
      /\ Returned(c) =>
           /\ AgentsOf(hist[c].enq) = StageOrder
           /\ hist[c].deq = hist[c].enq
           /\ AgentsOf(hist[c].inv) = StageOrder

\* A run on an empty queue failed in its SEO call, after the agents were
\* invoked once each in stage order.
C13_Witness ==
  \E c \in Coroutines :
    /\ Run(c) /\ Failed(c) /\ hist[c].q0 = <<>>
    /\ AgentsOf(hist[c].inv) = StageOrder
    /\ frame[c].err.line \in {69, 78}

\* C14: a task goes through dequeue, resolve, invoke, merge, mark done in
\* that order.  The counts of dequeued, invoked, returned, merged and done
\* tasks of a call never increase along that chain and differ by at most
\* one task, the one being handled; the task is marked done once, after its
\* merge; and between two tasks, and when the call has returned, every
\* dequeued task is done.
C14_StepOrder ==
  \A c \in Coroutines :
    LET d == Len(hist[c].deq)
        i == Len(hist[c].inv)
        r == Len(hist[c].rets)
        m == Len(hist[c].merged)
        n == hist[c].done
        pc == frame[c].pc
    IN /\ n <= m /\ m <= r /\ r <= i /\ i <= d /\ d <= n + 1
       /\ Active(c) =>
            /\ pc \in {"test", "add", "get", "return"} => n = d
            /\ pc \in {"resolve", "call"} => i = d - 1
            /\ pc = "await" => i = d /\ r = d - 1
            /\ pc = "merge" => r = d /\ m = d - 1
            /\ pc = "task_done" => m = d /\ n = d - 1
       /\ Returned(c) => n = d
       /\ unfinished_tasks >= Len(task_queue) + (d - n)

\* process_tasks returned with both tasks it dequeued marked done.
C14_Witness ==
  \E c \in Coroutines :
    /\ frame[c].call = "process_tasks" /\ Returned(c)
    /\ hist[c].done = 2 /\ Len(hist[c].merged) = 2
    /\ unfinished_tasks = 0

\* C15: the merge step of process_tasks always succeeds, also on a key the
\* store already holds; after it the store has, under every key of the
\* partial result, the partial's value, and every other key of the store
\* keeps its value; no key disappears and no other key appears.
C15_Merge ==
  [][\A c \in Coroutines :
       (At(c, "merge") /\ frame'[c] # frame[c]) =>
          LET partial == frame[c].result IN
          /\ frame'[c].status = "active" /\ frame'[c].pc = "task_done"
          /\ DOMAIN results' = DOMAIN results \cup DOMAIN partial
          /\ \A k \in DOMAIN partial : results'[k] = partial[k]
          /\ \A k \in DOMAIN results \ DOMAIN partial : results'[k] = results[k]]_vars

\* A merge has just overwritten a key with a different value, next to a key
\* it left alone.
C15_Witness ==
  \E c \in Coroutines :
    /\ At(c, "task_done")
    /\ \E k \in DOMAIN frame[c].result :
         /\ k \in DOMAIN hist[c].rdeq
         /\ hist[c].rdeq[k] # results[k]
    /\ \E k \in DOMAIN results \ DOMAIN frame[c].result :
         k \in DOMAIN hist[c].rdeq /\ hist[c].rdeq[k] = results[k]

\* C16: during a run_pipeline that started on an empty queue, the queue never
\* holds more than one task; it is empty when the driver builds the task of
\* the next stage (and the artifact), and when the run has returned.
C16_QueueBound ==
  \A c \in Coroutines :
    (Run(c) /\ hist[c].q0 = <<>>) =>
      /\ Len(task_queue) <= 1
      /\ (Active(c) /\ frame[c].pc \in {"add", "return"}) => task_queue = <<>>
      /\ Returned(c) => task_queue = <<>>

\* The task of stage 3 is alone in the queue, about to be dequeued.
C16_Witness ==
  \E c \in Coroutines :
    /\ Run(c) /\ hist[c].q0 = <<>>
    /\ At(c, "get") /\ frame[c].stage = 3
    /\ Len(task_queue) = 1

Range(seq) == {seq[i] : i \in 1..Len(seq)}

\* C17: every task that run_pipeline builds names the agent of its stage and
\* holds, besides that selector, exactly the fields this agent requires; and
\* what the agent of a stage is called with is that task, nothing else.
C17_OnlyRelevantFields ==
  \A c \in Coroutines :
    Run(c) =>
      /\ \A n \in 1..Len(hist[c].enq) :
           LET t == hist[c].enq[n] IN
           /\ t["agent"] = StageAgent(n)
           /\ DOMAIN t = {"agent"} \cup Range(Requires(StageAgent(n)))
      /\ \A i \in 1..Len(hist[c].inv) :
           i > Len(hist[c].q0) => hist[c].inv[i] = hist[c].enq[i - Len(hist[c].q0)]

\* All four agents were called with the tasks of the run.
C17_Witness ==
  \E c \in Coroutines :
    /\ Run(c) /\ Active(c)
    /\ Len(hist[c].enq) = 4
    /\ Len(hist[c].inv) = Pos(c, 4)
    /\ AgentsOf(SubSeq(hist[c].inv, Pos(c, 1), Pos(c, 4))) = StageOrder

\* The call of c ended in an exception of the agent it had called.
AgentCallFailed(c) ==
  /\ Failed(c)
  /\ MissingInputError(frame[c].err) \/ UpstreamError(frame[c].err)

\* C18: after a failed agent call the store is what it was when the failing
\* task was dequeued, and holds what the earlier tasks of the call merged and
\* nothing of the failing one; the failing task is out of the queue and the
\* tasks behind it are still there, in order; the failing task was not marked
\* done, so the queue counts at least one unfinished task more than it holds.
C18_FailedCall ==
  \A c \in Coroutines :
    AgentCallFailed(c) =>
      LET d == Len(hist[c].deq) IN
      /\ d >= 1 /\ Len(hist[c].inv) = d
      /\ results = hist[c].rdeq
      /\ Len(hist[c].merged) = d - 1
      /\ \A i \in 1..(d - 1) :
           \A k \in DOMAIN hist[c].merged[i] : k \in DOMAIN results
      /\ hist[c].done = d - 1
      /\ hist[c].deq \o task_queue = hist[c].q0 \o hist[c].enq
      /\ unfinished_tasks >= Len(task_queue) + 1
      /\ unfinished_tasks > 0

\* A provider failure after an earlier task of the call was merged, with a
\* task still queued behind the failing one.
C18_Witness ==
  \E c \in Coroutines :
    /\ Failed(c) /\ UpstreamError(frame[c].err)
    /\ Len(hist[c].merged) >= 1
    /\ results # <<>>
    /\ task_queue # <<>>
    /\ unfinished_tasks = Len(task_queue) + 1

\* C19: with one consumer, line 98 is only reached with a task in the queue,
\* so get() does not suspend; and every run_pipeline that has started ends,
\* returning an artifact or raising.
C19_Termination ==
  /\ [](\A c \in Coroutines :
          (Active(c) /\ frame[c].pc = "get") => task_queue # <<>>)
  /\ \A c \in MainCaller :
       (Run(c) /\ Active(c)) ~>
          (Run(c) /\ \/ Returned(c) /\ frame[c].artifact # NoArtifact
                     \/ Failed(c) /\ frame[c].err # NoError)

\* A run that also drained a task it found in the queue has returned.
C19_Witness ==
  \E c \in MainCaller :
    /\ Run(c) /\ Returned(c)
    /\ hist[c].q0 # <<>>
    /\ hist[c].done = Pos(c, 4)
    /\ task_queue = <<>>

====
